---- MODULE Spec2Model ----
(***************************************************************************)
(* A model of the two retrieval entry points of vlab-ew4all:               *)
(*   download_GOES      (src/files/downloader.py)                          *)
(*   download_jpss_sdr  (src/files/downloader_jpss.py)                     *)
(*                                                                         *)
(* An object key is modelled by the tokens of its file name that the code  *)
(* reads.  A GOES file name is                                             *)
(*   OR_<product+sector>[-M<mode>][C<band>]_G<sat>_s<YYYYJJJHHMMSSt>_e...  *)
(* and is kept as the record [sec, mode, band, wf, h, m, s, f]: sector     *)
(* suffix, mode digit, band token, whether the _s.._e timestamp has its    *)
(* 14 characters, and the hour, minute, second and tenth of the start      *)
(* timestamp.  Year and day of year are the same for every object of a     *)
(* request and are left out.                                               *)
(***************************************************************************)
EXTENDS Integers, Sequences, FiniteSets, TLC

None == "None"

(* ------------------------------ bounds --------------------------------- *)
\* Largest number of objects the bucket holds under the product's prefixes.
MaxCat == 2

(* ------------------------- program constants --------------------------- *)
GlmWindow == 20
ConusWindow == 120
OtherWindow == 600

\* The instant every request of the model asks for: 12:01, or 12:01:15 when
\* the timestamp is given with seconds.
Query == [h |-> 12, m |-> 1, s |-> 15]

(* ------------------------------ products ------------------------------- *)
\* A product id is kept in three pieces so that product[:-1], endswith and
\* startswith are computed: product = pre \o mid \o last.
Products ==
  { [pre |-> "ABI-",      mid |-> "L2-CMIP", last |-> "F"],
    [pre |-> "ABI-",      mid |-> "L2-CMIP", last |-> "C"],
    [pre |-> "ABI-",      mid |-> "L2-CMIP", last |-> "M"],
    [pre |-> "GLM-",      mid |-> "L2-LCF",  last |-> "A"],
    [pre |-> "SUVI-L1b-", mid |-> "Fe09",    last |-> "3"],
    [pre |-> "SEIS-L1b-", mid |-> "EHI",     last |-> "S"],
    [pre |-> "MAG-",      mid |-> "L1b-GEO", last |-> "F"],
    [pre |-> "XYZ-",      mid |-> "L2-AB",   last |-> "F"] }

ProductName(p) == p.pre \o p.mid \o p.last

is_mesoscale(p) == p.last = "M"
is_conus(p) == p.last = "C" /\ ~is_mesoscale(p)
is_glm_product(p) == ProductName(p) = "GLM-L2-LCFA"
is_suvi_product(p) == p.pre = "SUVI-L1b-"
is_seis_product(p) == p.pre = "SEIS-L1b-"
is_mag_product(p) == ProductName(p) = "MAG-L1b-GEOF"
is_abi(p) == p.pre = "ABI-"
is_fixed(p) == is_suvi_product(p) \/ is_seis_product(p) \/ is_mag_product(p)
NoModes(p) == is_glm_product(p) \/ is_fixed(p)

valid_satellites == {"G16", "G17", "G18", "G19"}
satellite_num(sat) ==
  CASE sat = "G16" -> "16" [] sat = "G17" -> "17" [] sat = "G18" -> "18"
    [] sat = "G19" -> "19" [] OTHER -> "15"

(* ------------------------------ file names ----------------------------- *)
\* The part of a stored object's file name up to and including "_s".
FileHead(p, sat, f) ==
  "OR_" \o p.pre \o p.mid \o (IF f.sec = "" THEN p.last ELSE f.sec)
        \o (IF f.mode = "" THEN "" ELSE "-M" \o f.mode) \o f.band
        \o "_G" \o satellite_num(sat) \o "_s"

\* strptime(..., '%Y%j%H%M%S') of the timestamp without its tenth, as seconds.
Seconds(h, m, s) == h * 3600 + m * 60 + s
Abs(x) == IF x < 0 THEN -x ELSE x

\* Line 107: the file name holds a -M<1..6>C<01..16> token.
HasBandToken(f) == f.mode # "" /\ f.band # ""

\* f'C{int(band):02d}' for the bands the model requests.
BandToken(b) ==
  CASE b \in {"1", "01"} -> "C01" [] b \in {"2", "02"} -> "C02" [] OTHER -> "C13"

(* --------------------------- the object store -------------------------- *)
File(sec, mode, band, wf, h, m, s, f) ==
  [sec |-> sec, mode |-> mode, band |-> band, wf |-> wf,
   h |-> h, m |-> m, s |-> s, f |-> f]

FileModes == {"3", "6"}
FileBands == {"C01", "C02"}

\* Lightning: deltas 20, 5, 5, 15 and 21 seconds from 12:01:00, and a name
\* whose timestamp is too short.
GlmFiles ==
  { File("", "", "", TRUE, 12, 0, 40, 0), File("", "", "", TRUE, 12, 0, 55, 3),
    File("", "", "", TRUE, 12, 1, 5, 0),  File("", "", "", TRUE, 12, 1, 15, 7),
    File("", "", "", TRUE, 12, 1, 21, 0), File("", "", "", FALSE, 12, 0, 0, 0) }

\* Fixed-format: two files of the query minute, one of another minute, one
\* in each adjacent hour at the same minute of the hour, one malformed.
FixedFiles ==
  { File("", "", "", TRUE, 12, 1, 10, 0), File("", "", "", TRUE, 12, 1, 40, 5),
    File("", "", "", TRUE, 12, 2, 10, 0), File("", "", "", TRUE, 11, 1, 10, 0),
    File("", "", "", TRUE, 13, 1, 10, 0), File("", "", "", FALSE, 12, 0, 0, 0) }

\* CONUS: deltas 45, 90 and 121 seconds from 12:01:00.
ConusTimes == { <<12, 0, 15>>, <<12, 2, 30>>, <<12, 3, 1>> }
ConusFiles ==
  { File("", md, b, TRUE, t[1], t[2], t[3], 0) :
      md \in FileModes, b \in {"C01", ""}, t \in ConusTimes }

\* Full disk and mesoscale: the query minute and another minute, and for
\* full disk a second file of the query minute.
ScanTimes == { <<12, 1, 10>>, <<12, 2, 10>> }
FullFiles ==
  { File("", md, b, TRUE, t[1], t[2], t[3], 0) :
      md \in FileModes, b \in FileBands \cup {""}, t \in ScanTimes }
    \cup { File("", "6", "C01", TRUE, 12, 1, 40, 5) }
MesoFiles ==
  { File(sc, md, "C01", TRUE, t[1], t[2], t[3], 0) :
      sc \in {"M1", "M2"}, md \in FileModes, t \in ScanTimes }

\* A product of no family: deltas 10 s, 9 min 50 s and exactly 10 min.
OtherFiles ==
  { File("", md, "", TRUE, t[1], t[2], t[3], 0) :
      md \in FileModes, t \in { <<12, 1, 10>>, <<12, 10, 50>>, <<12, 11, 0>> } }

Universe(p) ==
  IF is_glm_product(p) THEN GlmFiles
  ELSE IF is_fixed(p) THEN FixedFiles
  ELSE IF is_mesoscale(p) THEN MesoFiles
  ELSE IF is_conus(p) THEN ConusFiles
  ELSE IF is_abi(p) THEN FullFiles
  ELSE OtherFiles

Range(q) == { q[i] : i \in 1..Len(q) }

\* The sequences of at most n distinct elements of S.
RECURSIVE DistinctSeqs(_, _)
DistinctSeqs(S, n) ==
  IF n = 0 THEN { <<>> }
  ELSE LET prev == DistinctSeqs(S, n - 1)
       IN  prev \cup UNION { { Append(q, x) : x \in S \ Range(q) } :
                               q \in { r \in prev : Len(r) = n - 1 } }

\* A stream either carries band tokens in every file name or in none.
OneBandFamily(q) ==
  \/ \A i \in 1..Len(q) : q[i].band = ""
  \/ \A i \in 1..Len(q) : q[i].band # ""

(* ------------------------------ the state ------------------------------ *)
VARIABLES
  pc,            \* where the call is: start, search, select, fetch, return, done
  req,           \* the arguments of download_GOES
  bucket,        \* the objects stored under the product, in listing order
  all_objects,   \* line 92
  band_str,      \* lines 119-139
  sectors,       \* lines 131-143
  possible_modes,\* line 145
  pair,          \* number of (try_mode, sector) pairs already scanned
  search,        \* matching_files, closest_file, closest_time_diff, used_mode,
                 \* used_sector, attempted_patterns (lines 146-151)
  downloaded_files, \* line 250
  fi,            \* number of matching files already handled by the fetch loop
  result,        \* the value returned (lines 272-278), "Running" before
  local,         \* the paths known to exist in path_dest
  absent,        \* the paths known not to exist in path_dest
  fetch_calls,   \* the keys handed to s3_client.download_file in this call
  outcome,       \* what the call printed for each file handled: "exists"
                 \* (line 257), "downloaded" (line 267) or "error" (line 270),
                 \* in order; for download_jpss_sdr the set of tasks ended,
                 \* each with "downloaded" (line 106) or "error" (line 108)
  run,           \* 1 in the first call, 2 in the repeated call
  first,         \* result, fetch_calls and outcome of the first call, once
                 \* it is over
  jreq,          \* the arguments of download_jpss_sdr
  store,         \* the objects stored under the SDR and the GEO prefix
  lets_get,      \* line 116
  geo_files,     \* line 120
  matched_files, \* line 135
  download_tasks,\* line 149
  local_files,   \* line 150
  queue,         \* the tasks handed to the pool and not yet taken
  running        \* the tasks a worker of the pool is executing

jvars == << jreq, store, lets_get, geo_files, matched_files, download_tasks,
            local_files, queue, running >>

gvars == << req, bucket, all_objects, band_str, sectors, possible_modes,
            pair, search, downloaded_files, fi >>

vars == << pc, req, bucket, all_objects, band_str, sectors, possible_modes,
           pair, search, downloaded_files, fi, result, local, absent,
           fetch_calls, outcome, run, first, jvars >>

(* --------------------------- the time query ---------------------------- *)
\* Lines 47-54: dt_input.
dt_input(r) ==
  [h |-> Query.h, m |-> Query.m, s |-> IF r.has_seconds THEN Query.s ELSE 0]

\* Lines 51 and 54: timestamp_prefix, '%Y%j%H%M%S' or '%Y%j%H%M'.
timestamp_prefix(r) ==
  IF r.has_seconds THEN << dt_input(r).h, dt_input(r).m, dt_input(r).s >>
  ELSE << dt_input(r).h, dt_input(r).m >>

\* file_timestamp_str[:11] and [:13] of a file, timestamp_prefix[:11].
MinutePrefix(f) == << f.h, f.m >>
SecondPrefix(f) == << f.h, f.m, f.s >>
QueryMinutePrefix(r) == SubSeq(timestamp_prefix(r), 1, 2)

time_diff(r, f) ==
  Abs(Seconds(f.h, f.m, f.s)
        - Seconds(dt_input(r).h, dt_input(r).m, dt_input(r).s))

(* ----------------------------- the listing ----------------------------- *)
\* Lines 82-90: the hours whose prefix is listed, in order.
prefixes(r) ==
  IF is_fixed(r.product) /\ r.check_adjacent_hours
  THEN << dt_input(r).h, dt_input(r).h - 1, dt_input(r).h + 1 >>
  ELSE << dt_input(r).h >>

\* fetch_s3_objects: the objects stored under one hour, in listing order.
fetch_s3_objects(b, hour) == SelectSeq(b, LAMBDA f : f.h = hour)

RECURSIVE ListAll(_, _, _)
ListAll(b, hours, i) ==
  IF i > Len(hours) THEN << >>
  ELSE fetch_s3_objects(b, hours[i]) \o ListAll(b, hours, i + 1)

\* Lines 102-113.
is_band_specific(objs) == \E i \in 1..Len(objs) : HasBandToken(objs[i])

\* Line 118: the band taken when none is given.
DefaultBand02 == "02"
DefaultBand == "01"

\* Lines 115-139: band_str.
BandStr(r, objs) ==
  IF NoModes(r.product) THEN ""
  ELSE IF is_band_specific(objs)
       THEN BandToken(IF r.band = None THEN DefaultBand ELSE r.band)
       ELSE ""

\* Lines 126-143: sectors.
Sectors(r) ==
  IF NoModes(r.product) THEN << "" >>
  ELSE IF is_mesoscale(r.product)
       THEN IF r.sector \in {"M1", "M2"} THEN << r.sector >> ELSE << "M1", "M2" >>
       ELSE << "" >>

\* Line 145: possible_modes.
PossibleModesFallbackFirst(r) ==
  IF NoModes(r.product) THEN << "" >> ELSE << "3", "4", "6", r.mode >>
PossibleModes(r) ==
  IF NoModes(r.product) THEN << "" >> ELSE << r.mode, "3", "4", "6" >>

\* Lines 146-151: the accumulators before the search.
InitSearch(r) ==
  [ matching_files |-> << >>,
    used_mode |-> IF NoModes(r.product) THEN "" ELSE r.mode,
    used_sector |-> "",
    attempted_patterns |-> << >>,
    closest_file |-> << >>,
    closest_time_diff |-> OtherWindow ]

(* ------------------------------ the search ----------------------------- *)
\* Lines 155-159: target_pattern of one (try_mode, sector) pair.
target_pattern(r, bs, try_mode, sector) ==
  "OR_" \o (IF is_mesoscale(r.product)
            THEN r.product.pre \o r.product.mid \o sector
            ELSE ProductName(r.product))
        \o (IF try_mode # "" THEN "-M" \o try_mode ELSE "") \o bs
        \o "_G" \o satellite_num(r.satellite) \o "_s"

\* Line 165: file_name_full.startswith(target_pattern).  The pattern ends in
\* "_s" and only digits follow the head of a file name, so the pattern is a
\* prefix of the name exactly when it is the name's head.
StartsWith(r, f, pattern) == FileHead(r.product, r.satellite, f) = pattern

\* Lines 183-186: the lightning query at second precision stops the scan of
\* the objects at the first file of that second.
GlmExact(r, f) ==
  is_glm_product(r.product) /\ r.has_seconds /\ SecondPrefix(f) = timestamp_prefix(r)

\* Lines 191-194: whether a lightning file within the window replaces the
\* file held.
GlmReplaces(st, d) == st.matching_files = << >> \/ d < GlmWindow

\* Lines 203-207: whether a CONUS file within the window replaces the file
\* held.
ConusReplacesAlways(st, d) == TRUE
ConusReplaces(st, d) == st.closest_file = << >> \/ d < st.closest_time_diff

\* Lines 213-214: the exact-minute test.
SameMinuteOfHour(r, f) == f.m = dt_input(r).m
SameMinute(r, f) == MinutePrefix(f) = QueryMinutePrefix(r)

\* Lines 162-229: what one object does to the accumulators.
ObjStep(r, st, f, pattern, try_mode, sector) ==
  LET d == time_diff(r, f) IN
  IF ~StartsWith(r, f, pattern) THEN st
  ELSE IF ~f.wf THEN st
  ELSE IF is_glm_product(r.product) THEN
         IF r.has_seconds
         THEN IF GlmExact(r, f)
              THEN [st EXCEPT !.matching_files = << f >>, !.used_sector = sector]
              ELSE st
         ELSE IF d <= GlmWindow /\ GlmReplaces(st, d)
              THEN [st EXCEPT !.matching_files = << f >>, !.used_sector = sector]
              ELSE st
  ELSE IF is_conus(r.product) THEN
         IF d <= ConusWindow /\ ConusReplaces(st, d)
         THEN [st EXCEPT !.closest_file = << f >>, !.closest_time_diff = d,
                         !.used_mode = try_mode, !.used_sector = sector]
         ELSE st
  ELSE IF is_fixed(r.product) \/ is_abi(r.product) THEN
         IF SameMinute(r, f)
         THEN [st EXCEPT !.matching_files = Append(@, f)]
         ELSE st
  ELSE IF d < OtherWindow /\ (st.matching_files = << >> \/ d < st.closest_time_diff)
       THEN [st EXCEPT !.matching_files = << f >>, !.closest_time_diff = d,
                       !.used_mode = try_mode, !.used_sector = sector]
       ELSE st

\* Lines 162-229: the loop over all_objects for one pair, from object i on.
RECURSIVE ScanObjects(_, _, _, _, _, _, _)
ScanObjects(r, objs, i, st, pattern, try_mode, sector) ==
  IF i > Len(objs) THEN st
  ELSE LET f == objs[i]
           nx == ObjStep(r, st, f, pattern, try_mode, sector)
       IN  IF StartsWith(r, f, pattern) /\ f.wf /\ GlmExact(r, f) THEN nx
           ELSE ScanObjects(r, objs, i + 1, nx, pattern, try_mode, sector)

\* Lines 153-160: the k-th pair of the nested loops, k from 0.
PairMode(modes, secs, k) == modes[(k \div Len(secs)) + 1]
PairSector(modes, secs, k) == secs[(k % Len(secs)) + 1]

\* Lines 154-229: one iteration of the inner loop.
ScanPair(r, objs, bs, st, try_mode, sector) ==
  LET pattern == target_pattern(r, bs, try_mode, sector)
      st1 == [st EXCEPT !.attempted_patterns = Append(@, pattern)]
  IN  ScanObjects(r, objs, 1, st1, pattern, try_mode, sector)

\* Lines 231-234: the test that leaves both loops.
Found(st) == st.matching_files # << >> \/ st.closest_file # << >>

\* Lines 153-234: the search from pair k on.
RECURSIVE SearchFrom(_, _, _, _, _, _, _)
SearchFrom(r, objs, bs, modes, secs, k, st) ==
  IF k >= Len(modes) * Len(secs) THEN st
  ELSE LET nx == ScanPair(r, objs, bs, st, PairMode(modes, secs, k),
                          PairSector(modes, secs, k))
       IN  IF Found(nx) THEN nx
           ELSE SearchFrom(r, objs, bs, modes, secs, k + 1, nx)

\* Lines 236-238: the files handed to the fetch loop.
Selected(r, st) ==
  IF is_conus(r.product) /\ st.closest_file # << >> THEN st.closest_file
  ELSE st.matching_files

(* ------------------------------ the fetch ------------------------------ *)
\* Lines 252-253: os.path.join(path_dest, key.split('/')[-1]).  The hour
\* directory of a key is the hour of its file name, so the file name, and
\* with it the local path, is the key without its directory.
LocalPath(f) == [f EXCEPT !.wf = f.wf]

\* Lines 272-278: the value returned.
ReturnValue(paths) ==
  IF paths = << >> THEN [kind |-> "None", paths |-> << >>]
  ELSE IF Len(paths) = 1 THEN [kind |-> "str", paths |-> paths]
  ELSE [kind |-> "list", paths |-> paths]

Running == [kind |-> "Running", paths |-> << >>]
ReturnNone == [kind |-> "None", paths |-> << >>]

(* ----------------------------- the requests ---------------------------- *)
\* Arguments the product's family ignores (a band, a sector and a mode for
\* a product without them) are passed all together or not at all.
Requests ==
  { r \in [ product : Products, satellite : {"G16", "G15"},
            band : {None, "1", "2"}, mode : {"6", "3"},
            sector : {None, "M1", "M2"}, has_seconds : BOOLEAN,
            force_download : BOOLEAN, check_adjacent_hours : BOOLEAN ] :
      /\ r.satellite = "G15" =>
           /\ r.product = [pre |-> "ABI-", mid |-> "L2-CMIP", last |-> "F"]
           /\ r.band = None /\ r.mode = "6" /\ ~r.force_download
      /\ r.check_adjacent_hours => is_fixed(r.product)
      /\ r.has_seconds => NoModes(r.product)
      /\ r.band = "2" => is_abi(r.product) /\ r.product.last = "F"
      /\ IF is_mesoscale(r.product) THEN TRUE
         ELSE IF NoModes(r.product)
              THEN \/ r.band = None /\ r.sector = None /\ r.mode = "6"
                   \/ r.band = "1" /\ r.sector = "M1" /\ r.mode = "3"
              ELSE r.sector = None
      /\ ~is_abi(r.product) /\ ~NoModes(r.product) => r.band = None }

Init ==
  /\ req \in Requests
  /\ bucket \in { q \in DistinctSeqs(Universe(req.product), MaxCat) :
                    /\ OneBandFamily(q)
                    /\ req.satellite = "G15" => Len(q) = 1 }
  /\ pc = "start"
  /\ all_objects = << >>
  /\ band_str = ""
  /\ sectors = << >>
  /\ possible_modes = << >>
  /\ pair = 0
  /\ search = InitSearch(req)
  /\ downloaded_files = << >>
  /\ fi = 0
  /\ result = Running
  /\ local = {}
  /\ absent = {}
  /\ fetch_calls = << >>
  /\ outcome = << >>
  /\ run = 1
  /\ first = [result |-> Running, fetch_calls |-> << >>, outcome |-> << >>]
  /\ jreq = None
  /\ store = [sdr |-> {}, geo |-> {}]
  /\ lets_get = << >>
  /\ geo_files = << >>
  /\ matched_files = << >>
  /\ download_tasks = << >>
  /\ local_files = << >>
  /\ queue = << >>
  /\ running = {}

(* ------------------------------ the actions ---------------------------- *)
\* Lines 38-41: an unknown satellite ends the call.
RejectSatellite ==
  /\ pc = "start"
  /\ req.satellite \notin valid_satellites
  /\ result' = ReturnNone
  /\ pc' = "done"
  /\ UNCHANGED << jvars, req, bucket, all_objects, band_str, sectors, possible_modes,
                  pair, search, downloaded_files, fi, local, absent,
                  fetch_calls, outcome, run, first >>

\* Lines 92-99: nothing is listed under the prefixes.
ListEmpty ==
  /\ pc = "start"
  /\ req.satellite \in valid_satellites
  /\ ListAll(bucket, prefixes(req), 1) = << >>
  /\ result' = ReturnNone
  /\ pc' = "done"
  /\ UNCHANGED << jvars, req, bucket, all_objects, band_str, sectors, possible_modes,
                  pair, search, downloaded_files, fi, local, absent,
                  fetch_calls, outcome, run, first >>

\* Lines 82-151: the listing, the band token, the sectors and modes to try.
Prepare ==
  /\ pc = "start"
  /\ req.satellite \in valid_satellites
  /\ LET objs == ListAll(bucket, prefixes(req), 1) IN
       /\ objs # << >>
       /\ all_objects' = objs
       /\ band_str' = BandStr(req, objs)
  /\ sectors' = Sectors(req)
  /\ possible_modes' = PossibleModes(req)
  /\ search' = InitSearch(req)
  /\ pair' = 0
  /\ pc' = "search"
  /\ UNCHANGED << jvars, req, bucket, downloaded_files, fi, result, local, absent,
                  fetch_calls, outcome, run, first >>

\* Lines 153-234: one (try_mode, sector) pair is scanned; the loops end when
\* it found something or when it was the last pair.
ScanNext ==
  /\ pc = "search"
  /\ LET nx == ScanPair(req, all_objects, band_str, search,
                        PairMode(possible_modes, sectors, pair),
                        PairSector(possible_modes, sectors, pair))
     IN  /\ search' = nx
         /\ pc' = IF Found(nx) \/ pair + 1 >= Len(possible_modes) * Len(sectors)
                  THEN "select" ELSE "search"
  /\ pair' = pair + 1
  /\ UNCHANGED << jvars, req, bucket, all_objects, band_str, sectors, possible_modes,
                  downloaded_files, fi, result, local, absent, fetch_calls,
                  outcome,
                  run, first >>

\* Lines 239-244: no pair matched.
NoMatch ==
  /\ pc = "select"
  /\ Selected(req, search) = << >>
  /\ result' = ReturnNone
  /\ pc' = "done"
  /\ UNCHANGED << jvars, req, bucket, all_objects, band_str, sectors, possible_modes,
                  pair, search, downloaded_files, fi, local, absent,
                  fetch_calls, outcome, run, first >>

\* Lines 236-250: the selection is handed to the fetch loop.
Select ==
  /\ pc = "select"
  /\ Selected(req, search) # << >>
  /\ search' = [search EXCEPT !.matching_files = Selected(req, search)]
  /\ downloaded_files' = << >>
  /\ fi' = 0
  /\ pc' = "fetch"
  /\ UNCHANGED << jvars, req, bucket, all_objects, band_str, sectors, possible_modes,
                  pair, result, local, absent, fetch_calls, outcome, run, first >>

\* Line 256: os.path.exists(file_path) and not force_download, for a path
\* whose presence is known (in local or in absent) or not yet looked at.
MayBeKept(path) == ~req.force_download /\ path \notin absent
MustFetchAlways(path) == TRUE
MayBeFetched(path) == req.force_download \/ path \notin local

\* Lines 256-259: the file is there and no refresh is forced.
FetchExisting ==
  /\ pc = "fetch"
  /\ fi < Len(search.matching_files)
  /\ LET path == LocalPath(search.matching_files[fi + 1]) IN
       /\ MayBeKept(path)
       /\ local' = local \cup {path}
       /\ downloaded_files' = Append(downloaded_files, path)
  /\ outcome' = Append(outcome, "exists")
  /\ fi' = fi + 1
  /\ UNCHANGED << jvars, pc, req, bucket, all_objects, band_str, sectors,
                  possible_modes, pair, search, result, absent, fetch_calls,
                  run, first >>

\* Lines 261-268: the file is fetched.
FetchOk ==
  /\ pc = "fetch"
  /\ fi < Len(search.matching_files)
  /\ LET key == search.matching_files[fi + 1]
         path == LocalPath(key)
     IN  /\ MayBeFetched(path)
         /\ fetch_calls' = Append(fetch_calls, key)
         /\ local' = local \cup {path}
         /\ absent' = absent \ {path}
         /\ downloaded_files' = Append(downloaded_files, path)
  /\ outcome' = Append(outcome, "downloaded")
  /\ fi' = fi + 1
  /\ UNCHANGED << jvars, pc, req, bucket, all_objects, band_str, sectors,
                  possible_modes, pair, search, result, run, first >>

\* The fetch raises and nothing catches it: the call ends there.
FetchFailRaises ==
  /\ pc = "fetch"
  /\ fi < Len(search.matching_files)
  /\ MayBeFetched(LocalPath(search.matching_files[fi + 1]))
  /\ fetch_calls' = Append(fetch_calls, search.matching_files[fi + 1])
  /\ outcome' = Append(outcome, "error")
  /\ result' = [kind |-> "raised", paths |-> << >>]
  /\ pc' = "done"
  /\ UNCHANGED << jvars, req, bucket, all_objects, band_str, sectors,
                  possible_modes, pair, search, downloaded_files, fi, local,
                  absent, run, first >>

\* Lines 265-270: the fetch raises; the file is reported and left out.
FetchFail ==
  /\ pc = "fetch"
  /\ fi < Len(search.matching_files)
  /\ LET key == search.matching_files[fi + 1]
         path == LocalPath(key)
     IN  /\ MayBeFetched(path)
         /\ fetch_calls' = Append(fetch_calls, key)
         /\ absent' = IF req.force_download THEN absent ELSE absent \cup {path}
  /\ outcome' = Append(outcome, "error")
  /\ fi' = fi + 1
  /\ UNCHANGED << jvars, pc, req, bucket, all_objects, band_str, sectors,
                  possible_modes, pair, search, downloaded_files, result,
                  local, run, first >>

\* Lines 272-278.
Return ==
  /\ pc = "fetch"
  /\ fi = Len(search.matching_files)
  /\ result' = ReturnValue(downloaded_files)
  /\ pc' = "done"
  /\ UNCHANGED << jvars, req, bucket, all_objects, band_str, sectors, possible_modes,
                  pair, search, downloaded_files, fi, local, absent,
                  fetch_calls, outcome, run, first >>

\* The caller repeats the call with the same arguments; the files written by
\* the first call are still there.
CallAgain ==
  /\ pc = "done"
  /\ run = 1
  /\ first' = [result |-> result, fetch_calls |-> fetch_calls,
                outcome |-> outcome]
  /\ run' = 2
  /\ pc' = "start"
  /\ all_objects' = << >>
  /\ band_str' = ""
  /\ sectors' = << >>
  /\ possible_modes' = << >>
  /\ pair' = 0
  /\ search' = InitSearch(req)
  /\ downloaded_files' = << >>
  /\ fi' = 0
  /\ result' = Running
  /\ fetch_calls' = << >>
  /\ outcome' = << >>
  /\ UNCHANGED << jvars, req, bucket, local, absent >>

Next ==
  \/ RejectSatellite
  \/ ListEmpty
  \/ Prepare
  \/ ScanNext
  \/ NoMatch
  \/ Select
  \/ FetchExisting
  \/ FetchOk
  \/ FetchFail
  \/ Return
  \/ CallAgain

Spec == Init /\ [][Next]_vars

(* ========================= download_jpss_sdr =========================== *)
(* A JPSS object is the record [stream, d, h, m, s, x, sha, ok]: the SDR   *)
(* or GEO prefix it is stored under, the day, hour, minute and second of   *)
(* the d<date>_t<time> tokens of its name, the tenth that ends the time    *)
(* token, whether the name ends in .sha384, and whether the name has the   *)
(* tokens where the parsers look for them.  Year and month are those of    *)
(* the request for every object and are left out.                          *)
(***************************************************************************)

\* Largest number of objects stored under the SDR prefix, and under the GEO
\* prefix, of the day.
MaxJ == 2

\* Line 162: the workers of the pool.
max_workers == 4

JFile(stream, t, x, sha, ok) ==
  [stream |-> stream, d |-> t[1], h |-> t[2], m |-> t[3], s |-> t[4],
   x |-> x, sha |-> sha, ok |-> ok]

\* The requests start on day 8 at 12:00; the stored objects are of 11:59:59,
\* 12:00:00, 12:01:25 and 12:02:00 of that day.
JBefore == << 8, 11, 59, 59 >>
JAtStart == << 8, 12, 0, 0 >>
JInside == << 8, 12, 1, 25 >>
JAtEnd == << 8, 12, 2, 0 >>

SdrFiles ==
  { JFile("SDR", JBefore, 0, FALSE, TRUE), JFile("SDR", JAtStart, 0, FALSE, TRUE),
    JFile("SDR", JInside, 0, FALSE, TRUE), JFile("SDR", JInside, 5, FALSE, TRUE),
    JFile("SDR", JInside, 0, TRUE, TRUE),  JFile("SDR", JAtEnd, 0, FALSE, TRUE),
    JFile("SDR", JInside, 0, FALSE, FALSE) }

GeoFiles ==
  { JFile("GEO", JAtStart, 0, FALSE, TRUE), JFile("GEO", JInside, 0, FALSE, TRUE),
    JFile("GEO", JInside, 5, FALSE, TRUE),  JFile("GEO", JInside, 0, TRUE, TRUE),
    JFile("GEO", JAtEnd, 0, FALSE, TRUE) }

JRequests ==
  [ band : {"I1", "M3", "DNB"},
    start : { [d |-> 8, h |-> 12, m |-> 0] },
    end : { [d |-> 8, h |-> 12, m |-> 2], [d |-> 9, h |-> 0, m |-> 10] },
    include_checksums : BOOLEAN ]

\* Lines 25-26: the prefixes listed.
target_data(band) == IF band = "DNB" THEN "VIIRS-DNB-SDR" ELSE "VIIRS-" \o band \o "-SDR"
target_data_geo(band) ==
  IF band = "DNB" THEN "VIIRS-DNB-GEO"
  ELSE IF band \in {"M3"} THEN "VIIRS-MOD-GEO-TC" ELSE "VIIRS-IMG-GEO-TC"

\* A datetime as the number of seconds since the start of day 0 of the month.
Instant(d, h, m, s) == ((d * 24 + h) * 60 + m) * 60 + s

\* Lines 29-38: both limiters take year, month and day from start.
start_limiter(r) == Instant(r.start.d, r.start.h, r.start.m, 0)
end_limiter(r) == Instant(r.start.d, r.end.h, r.end.m, 0)

\* Lines 53-98: the datetime parsed from a name, at second precision; the
\* tenth is dropped.  << >> stands for the None of a name that does not parse.
parse_dates_sdr(f) == IF f.ok THEN << Instant(f.d, f.h, f.m, f.s) >> ELSE << >>
parse_dates_geo(f) == IF f.ok THEN << Instant(f.d, f.h, f.m, f.s) >> ELSE << >>

\* The order in which the store lists the names of one prefix: by name, so
\* by date and time tokens, and a checksum right after its file.
NameRank(f) ==
  (Instant(f.d, f.h, f.m, f.s) * 10 + f.x) * 4
    + (IF f.ok THEN 0 ELSE 2) + (IF f.sha THEN 1 ELSE 0)

RECURSIVE Listed(_)
Listed(S) ==
  IF S = {} THEN << >>
  ELSE LET f == CHOOSE x \in S : \A y \in S : NameRank(x) <= NameRank(y)
       IN  << f >> \o Listed(S \ {f})

\* Lines 45-51: list_blobs leaves the checksums out unless they are asked for.
KeepsChecksums(r) == r.include_checksums
list_blobs(r, S) == SelectSeq(Listed(S), LAMBDA f : KeepsChecksums(r) \/ ~f.sha)

\* Lines 113-116 and 124-128: the names that parse and lie in the range.
InRange(r, t) == t >= start_limiter(r) /\ t < end_limiter(r)
ParseDate(f) == IF f.stream = "SDR" THEN parse_dates_sdr(f) ELSE parse_dates_geo(f)
Filtered(r, names) ==
  LET kept == SelectSeq(names, LAMBDA f : ParseDate(f) # << >>
                                            /\ InRange(r, ParseDate(f)[1]))
  IN  [ i \in 1..Len(kept) |-> [Files |-> kept[i], Date |-> ParseDate(kept[i])[1]] ]

\* Line 138: the geolocation names of the instant of one SDR record.
matched_geo(geo, sdr_time) ==
  LET hit == SelectSeq(geo, LAMBDA g : g.Date = sdr_time)
  IN  [ i \in 1..Len(hit) |-> hit[i].Files ]

\* Lines 135-143: every SDR name with a geolocation name of its instant,
\* followed by those names.
RECURSIVE Interleave(_, _, _)
Interleave(sdrs, geo, i) ==
  IF i > Len(sdrs) THEN << >>
  ELSE LET mg == matched_geo(geo, sdrs[i].Date)
       IN  (IF mg # << >> THEN << sdrs[i].Files >> \o mg ELSE << >>)
             \o Interleave(sdrs, geo, i + 1)

\* Line 146: list(dict.fromkeys(...)).
KeepDuplicates(q) == q
RECURSIVE Dedup(_)
Dedup(q) ==
  IF q = << >> THEN << >>
  ELSE LET init == Dedup(SubSeq(q, 1, Len(q) - 1))
           last == q[Len(q)]
       IN  IF last \in Range(init) THEN init ELSE Append(init, last)

\* Lines 152-153: the local path of a name.  The names of the two prefixes
\* differ in their first token, so distinct keys have distinct file names.
JLocalPath(f) == [f EXCEPT !.ok = f.ok]

\* Lines 156-159: a path gets a task when os.path.isfile(local_path) is
\* false.
NeedsTaskAlways(f, present) == TRUE
NeedsTask(f, present) == f \notin present

\* Line 166: the paths returned.
Returned(paths, present) ==
  SelectSeq(paths, LAMBDA f : f \in present /\ ~f.sha)

JInit ==
  /\ jreq \in JRequests
  /\ store \in { [sdr |-> a, geo |-> b] :
                   a \in { S \in SUBSET SdrFiles : Cardinality(S) <= MaxJ },
                   b \in { S \in SUBSET GeoFiles : Cardinality(S) <= MaxJ + 1 } }
  /\ pc = "j_list"
  /\ lets_get = << >>
  /\ geo_files = << >>
  /\ matched_files = << >>
  /\ download_tasks = << >>
  /\ local_files = << >>
  /\ queue = << >>
  /\ running = {}
  /\ result = Running
  /\ local = {}
  /\ absent = {}
  /\ fetch_calls = << >>
  /\ outcome = {}
  /\ run = 1
  /\ first = [result |-> Running, fetch_calls |-> << >>, outcome |-> {}]
  /\ req = None
  /\ bucket = << >>
  /\ all_objects = << >>
  /\ band_str = ""
  /\ sectors = << >>
  /\ possible_modes = << >>
  /\ pair = 0
  /\ search = None
  /\ downloaded_files = << >>
  /\ fi = 0

\* Lines 111-128: both prefixes are listed, parsed and cut to the range.
JList ==
  /\ pc = "j_list"
  /\ lets_get' = Filtered(jreq, list_blobs(jreq, store.sdr))
  /\ geo_files' = Filtered(jreq, list_blobs(jreq, store.geo))
  /\ pc' = "j_match"
  /\ UNCHANGED << gvars, jreq, store, matched_files, download_tasks,
                  local_files, queue, running, result, local, absent,
                  fetch_calls, outcome, run, first >>

\* Lines 134-146: the pairing and the removal of duplicates.
JMatch ==
  /\ pc = "j_match"
  /\ matched_files' = Dedup(Interleave(lets_get, geo_files, 1))
  /\ pc' = "j_tasks"
  /\ UNCHANGED << gvars, jreq, store, lets_get, geo_files, download_tasks,
                  local_files, queue, running, result, local, absent,
                  fetch_calls, outcome, run, first >>

\* Lines 149-163: the paths of the matched names, a task for every path that
\* is not a file yet, and the tasks handed to the pool.  The paths looked at
\* for the first time are there or not.
JTasks ==
  /\ pc = "j_tasks"
  /\ LET paths == Dedup([ i \in 1..Len(matched_files) |-> JLocalPath(matched_files[i]) ])
         unseen == Range(paths) \ (local \cup absent)
     IN  \E there \in SUBSET unseen :
           /\ local' = local \cup there
           /\ absent' = absent \cup (unseen \ there)
           /\ local_files' = paths
           /\ download_tasks' = SelectSeq(paths, LAMBDA f : NeedsTask(f, local \cup there))
           /\ queue' = SelectSeq(paths, LAMBDA f : NeedsTask(f, local \cup there))
  /\ pc' = "j_pool"
  /\ UNCHANGED << gvars, jreq, store, lets_get, geo_files, matched_files,
                  running, result, fetch_calls, outcome, run, first >>

\* executor.map: a free worker takes the next task.
JStart ==
  /\ pc = "j_pool"
  /\ queue # << >>
  /\ Cardinality(running) < max_workers
  /\ running' = running \cup { Head(queue) }
  /\ queue' = Tail(queue)
  /\ fetch_calls' = Append(fetch_calls, Head(queue))
  /\ UNCHANGED << gvars, jreq, store, lets_get, geo_files, matched_files,
                  download_tasks, local_files, pc, result, local, absent,
                  outcome, run, first >>

\* Lines 101-106: a download ends well and the file is there.
JFinishOk ==
  /\ pc = "j_pool"
  /\ \E t \in running :
       /\ running' = running \ {t}
       /\ local' = local \cup {t}
       /\ absent' = absent \ {t}
       /\ outcome' = outcome \cup { [task |-> t, status |-> "downloaded"] }
  /\ UNCHANGED << gvars, jreq, store, lets_get, geo_files, matched_files,
                  download_tasks, local_files, queue, pc, result,
                  fetch_calls, run, first >>

\* Lines 107-108: a download raises; the worker reports it and goes on.
JFinishFail ==
  /\ pc = "j_pool"
  /\ \E t \in running :
       /\ running' = running \ {t}
       /\ outcome' = outcome \cup { [task |-> t, status |-> "error"] }
  /\ UNCHANGED << gvars, jreq, store, lets_get, geo_files, matched_files,
                  download_tasks, local_files, queue, pc, result, local,
                  absent, fetch_calls, run, first >>

\* Lines 165-167: the pool is done; the paths that are files are returned.
JReturn ==
  /\ pc = "j_pool"
  /\ queue = << >>
  /\ running = {}
  /\ local_files' = Returned(local_files, local)
  /\ result' = [kind |-> "list", paths |-> Returned(local_files, local)]
  /\ pc' = "j_done"
  /\ UNCHANGED << gvars, jreq, store, lets_get, geo_files, matched_files,
                  download_tasks, queue, running, local, absent, fetch_calls,
                  outcome, run, first >>

JNext ==
  \/ JList
  \/ JMatch
  \/ JTasks
  \/ JStart
  \/ JFinishOk
  \/ JFinishFail
  \/ JReturn

SpecJPSS == JInit /\ [][JNext]_vars

(* ------------------------------ the claims ----------------------------- *)
\* The search over the (mode, sector) pairs has ended and its outcome stands.
SearchOver == pc \in {"select", "fetch"}

InWindow(f, w) == f.wf /\ time_diff(req, f) <= w

\* The listed objects, by position, that match the pattern of mode md and
\* sector sc and lie within w seconds of the query.
Candidates(md, sc, w) ==
  { i \in 1..Len(all_objects) :
      /\ StartsWith(req, all_objects[i], target_pattern(req, band_str, md, sc))
      /\ InWindow(all_objects[i], w) }

\* Position i holds a closest object of the positions I, the first of them
\* in listing order.
FirstClosest(i, I) ==
  /\ i \in I
  /\ \A j \in I : time_diff(req, all_objects[i]) <= time_diff(req, all_objects[j])
  /\ \A j \in I : time_diff(req, all_objects[j]) = time_diff(req, all_objects[i])
                    => i <= j

ModeIndexes == 1..Len(possible_modes)

C2_GlmClosestWithin20s ==
  (SearchOver /\ is_glm_product(req.product) /\ ~req.has_seconds) =>
    LET I == Candidates("", "", GlmWindow)
        sel == Selected(req, search)
    IN  IF I = {} THEN sel = << >>
        ELSE Len(sel) = 1 /\ \E i \in I : FirstClosest(i, I) /\ sel[1] = all_objects[i]

\* C3 as stated: the effective mode and sector recorded with a selection
\* are those of the pair whose pattern the selected records match.
C3_UsedModeSectorOfSelection ==
  (SearchOver /\ ~NoModes(req.product) /\ Selected(req, search) # << >>) =>
    \A i \in 1..Len(Selected(req, search)) :
      StartsWith(req, Selected(req, search)[i],
                 target_pattern(req, band_str, search.used_mode, search.used_sector))

\* The stored objects of the product whose start timestamp, cut to the
\* minute, is the minute asked for.
QueryMinuteFiles ==
  { f \in Range(bucket) : f.wf /\ f.h = Query.h /\ f.m = Query.m }

\* C4: for a fixed-format product the selected keys are exactly the stored
\* records of the query minute, each once, whatever band, mode, sector and
\* adjacent-hour flag were passed; when nothing is listed the call ends
\* without a selection and no record of the minute exists.
C4_FixedExactMinuteSet ==
  is_fixed(req.product) =>
    /\ SearchOver =>
         /\ Range(Selected(req, search)) = QueryMinuteFiles
         /\ Len(Selected(req, search)) = Cardinality(QueryMinuteFiles)
    /\ (pc = "done" /\ all_objects = << >>) => QueryMinuteFiles = {}

\* A fixed-format search with the adjacent hours listed and a band passed
\* that selected a file of the minute while a file of the same minute of an
\* adjacent hour was listed.
C4_Witness ==
  /\ SearchOver /\ is_fixed(req.product)
  /\ req.check_adjacent_hours /\ req.band = "1"
  /\ Len(Selected(req, search)) = 1
  /\ \E i \in 1..Len(all_objects) :
       all_objects[i].h # Query.h /\ all_objects[i].m = Query.m

\* The search as it runs when band 01 is requested.
SearchWithBand01 ==
  LET r1 == [req EXCEPT !.band = "01"]
  IN  Selected(r1, SearchFrom(r1, all_objects, BandStr(r1, all_objects),
                              PossibleModes(r1), Sectors(r1), 0, InitSearch(r1)))

\* C9: with a band-specific listing and no band given, the selection is the
\* one of a request for band 01, and when that is empty the call returns
\* None without a fetch.
C9_BandDefaultIs01 ==
  (req.band = None /\ all_objects # << >> /\ is_band_specific(all_objects)) =>
    /\ SearchOver => Selected(req, search) = SearchWithBand01
    /\ (pc = "done" /\ SearchWithBand01 = << >>) =>
         result = ReturnNone /\ fetch_calls = << >>

\* A search with no band given over a listing that holds a file of band 02
\* and a file of band 01 of the query minute, which was selected.
C9_Witness ==
  /\ req.band = None /\ SearchOver
  /\ \E i \in 1..Len(all_objects) : all_objects[i].band = "C02"
  /\ Selected(req, search) # << >>
  /\ Selected(req, search)[1].band = "C01"

\* The positions of the selection the fetch loop has handled with the given
\* message.
Handled(log, what) == { i \in 1..Len(log) : log[i] = what }

\* The selected paths of the call, in order, whose message is not "error".
RECURSIVE KeptPaths(_, _, _)
KeptPaths(sel, log, i) ==
  IF i > Len(sel) THEN << >>
  ELSE (IF log[i] = "error" THEN << >> ELSE << LocalPath(sel[i]) >>)
         \o KeptPaths(sel, log, i + 1)

\* C6 as stated: the repeated call without force-refresh issues no fetch and
\* returns the paths of the first call, whatever the first call's fetches
\* did.
C6_SecondRunFetchesNothing ==
  (run = 2 /\ pc = "done" /\ ~req.force_download) =>
    /\ fetch_calls = << >>
    /\ Range(result.paths) = Range(first.result.paths)

\* C6 as amended: the repeated call without force-refresh fetches exactly
\* the selected files whose fetch failed in the first call, and returns at
\* least the paths of the first call; when no fetch of the first call failed
\* it issues no fetch and returns the same value.
C6_SecondRunFetchesOnlyFailed ==
  (run = 2 /\ pc = "done" /\ ~req.force_download) =>
    /\ Range(fetch_calls)
         = { search.matching_files[i] : i \in Handled(first.outcome, "error") }
    /\ Len(fetch_calls) = Cardinality(Handled(first.outcome, "error"))
    /\ Range(first.result.paths) \subseteq Range(result.paths)
    /\ Handled(first.outcome, "error") = {} =>
         fetch_calls = << >> /\ result = first.result

\* A repeated call over two selected files, one fetched and one kept by the
\* first call, that fetched nothing.
C6_Witness ==
  /\ run = 2 /\ pc = "done" /\ ~req.force_download
  /\ Handled(first.outcome, "downloaded") # {}
  /\ Handled(first.outcome, "exists") # {}
  /\ Len(outcome) = 2
  /\ fetch_calls = << >>

\* C8: a failed fetch does not end the call: every selected file is handled,
\* the call returns, and the value returned holds exactly the paths that
\* were kept or fetched, in order: None for none, the path for one, the list
\* for several.
C8_FetchFailureContained ==
  /\ result.kind \in {"Running", "None", "str", "list"}
  /\ (pc = "done" /\ outcome # << >>) =>
       /\ Len(outcome) = Len(search.matching_files)
       /\ result.paths = KeptPaths(search.matching_files, outcome, 1)
       /\ \A i \in Handled(outcome, "error") :
            LocalPath(search.matching_files[i]) \notin Range(result.paths)
       /\ result.kind = IF Len(result.paths) = 0 THEN "None"
                        ELSE IF Len(result.paths) = 1 THEN "str" ELSE "list"

\* A call whose first fetch failed and whose second fetch succeeded, which
\* returned the one path.
C8_Witness ==
  /\ pc = "done" /\ outcome = << "error", "downloaded" >>
  /\ result.kind = "str"

(* ------------------- the claims on the order of the search ------------- *)
\* The scan-based products other than CONUS: full disk, mesoscale and the
\* products of no family.
ScanBased(p) == ~NoModes(p) /\ ~is_conus(p)

\* The order the pairs are to be tried in: the requested mode, then 3, 4, 6,
\* and within each mode the given sector, or M1 then M2 for a mesoscale
\* product without a valid sector.
ModeOrder == << req.mode, "3", "4", "6" >>
SectorOrder ==
  IF is_mesoscale(req.product)
  THEN IF req.sector \in {"M1", "M2"} THEN << req.sector >> ELSE << "M1", "M2" >>
  ELSE << "" >>
PairCount == Len(ModeOrder) * Len(SectorOrder)
PatternAt(k) ==
  target_pattern(req, band_str, ModeOrder[((k - 1) \div Len(SectorOrder)) + 1],
                 SectorOrder[((k - 1) % Len(SectorOrder)) + 1])

\* The listed objects that the k-th pattern matches: well-formed names that
\* start with the pattern, of the query minute for an ABI product and less
\* than ten minutes away for the others.
Yield(k) ==
  { i \in 1..Len(all_objects) :
      LET f == all_objects[i] IN
        /\ FileHead(req.product, req.satellite, f) = PatternAt(k)
        /\ f.wf
        /\ IF is_abi(req.product)
           THEN MinutePrefix(f) = QueryMinutePrefix(req)
           ELSE time_diff(req, f) < OtherWindow }

\* The number of pairs tried: up to the first one that yields, or all.
PairsTried ==
  IF \E k \in 1..PairCount : Yield(k) # {}
  THEN CHOOSE k \in 1..PairCount :
         Yield(k) # {} /\ \A j \in 1..(k - 1) : Yield(j) = {}
  ELSE PairCount

\* C11: for a scan-based product other than CONUS the pairs are tried in the
\* order [requested mode, 3, 4, 6] x [M1, M2] (or the one sector), the search
\* stops at the first pair whose pattern yields a match, every selected
\* record matches that pair's pattern, and the list of attempted patterns
\* ends with it.
C11_PairsTriedInOrderUntilFirstMatch ==
  (SearchOver /\ ScanBased(req.product)) =>
    LET n == PairsTried
        sel == Selected(req, search)
    IN  /\ search.attempted_patterns = [ k \in 1..n |-> PatternAt(k) ]
        /\ (sel # << >>) = (Yield(n) # {})
        /\ \A i \in 1..Len(sel) :
             FileHead(req.product, req.satellite, sel[i]) = PatternAt(n)
        /\ \A i \in 1..Len(sel) :
             \E j \in Yield(n) : all_objects[j] = sel[i]

\* A mesoscale request without a sector whose first match is in a fallback
\* mode: both sectors of the requested mode were tried in vain, and pairs
\* after the successful one remain untried.
C11_Witness ==
  /\ SearchOver
  /\ is_mesoscale(req.product) /\ req.sector = None
  /\ Selected(req, search) # << >>
  /\ Len(search.attempted_patterns) >= 3
  /\ Len(search.attempted_patterns) < PairCount

(* ----------------------- the claims on the pairing --------------------- *)
\* The pairing has just been computed; matched_files is not assigned again.
Paired == pc = "j_tasks"

\* The end of the range as the end argument gives it, with its own date.
EndAsGiven == Instant(jreq.end.d, jreq.end.h, jreq.end.m, 0)

\* The listed names of a prefix that parse, and the instant of one.
Parsed(S) == { f \in Range(list_blobs(jreq, S)) : f.ok }
When(f) == Instant(f.d, f.h, f.m, f.s)
GeoOf(f) == { g \in Parsed(store.geo) : When(g) = When(f) }

\* C5 as stated: every SDR record of [start, end) with a geolocation record
\* of the same second is in the matched output with all those records,
\* every SDR record of the range without one is left out, and no record
\* from outside [start, end) is in the output.
C5_PairsAllOfGivenRange ==
  Paired =>
    /\ \A f \in Parsed(store.sdr) :
         (When(f) >= start_limiter(jreq) /\ When(f) < EndAsGiven) =>
           IF GeoOf(f) = {} THEN f \notin Range(matched_files)
           ELSE {f} \cup GeoOf(f) \subseteq Range(matched_files)
    /\ \A f \in Range(matched_files) :
         When(f) >= start_limiter(jreq) /\ When(f) < EndAsGiven

NoDuplicates(q) == \A i, j \in 1..Len(q) : q[i] = q[j] => i = j

\* The geolocation names of the instant of f, in listing order.
GeoSeqOf(f) == SelectSeq(list_blobs(jreq, store.geo), LAMBDA g : g.ok /\ When(g) = When(f))

\* The names of q right after position i up to the next SDR name.
RECURSIVE BlockAfter(_, _)
BlockAfter(q, i) ==
  IF i + 1 > Len(q) \/ q[i + 1].stream = "SDR" THEN << >>
  ELSE << q[i + 1] >> \o BlockAfter(q, i + 1)

\* C7 as stated: no key occurs twice, and every matched SDR record is
\* directly followed by all the geolocation records of its instant.
C7_EachSdrThenAllItsGeo ==
  Paired =>
    /\ NoDuplicates(matched_files)
    /\ \A i \in 1..Len(matched_files) :
         matched_files[i].stream = "SDR" =>
           /\ GeoSeqOf(matched_files[i]) # << >>
           /\ BlockAfter(matched_files, i) = GeoSeqOf(matched_files[i])

\* C7 as amended: no key occurs twice, the list starts with an SDR record,
\* and every matched SDR record has a geolocation record of its instant and
\* is directly followed by those of them that are not already earlier in the
\* list, in listing order.
C7_EachSdrThenItsNewGeo ==
  Paired =>
    /\ NoDuplicates(matched_files)
    /\ matched_files # << >> => matched_files[1].stream = "SDR"
    /\ \A i \in 1..Len(matched_files) :
         matched_files[i].stream = "SDR" =>
           /\ GeoSeqOf(matched_files[i]) # << >>
           /\ BlockAfter(matched_files, i)
                = SelectSeq(GeoSeqOf(matched_files[i]),
                            LAMBDA g : g \notin Range(SubSeq(matched_files, 1, i - 1)))

\* Two SDR records of one instant were matched with the one geolocation
\* record of that instant, which is listed once.
C7_Witness ==
  /\ Paired
  /\ \E i, j \in 1..Len(matched_files) :
       /\ i < j
       /\ matched_files[i].stream = "SDR" /\ matched_files[j].stream = "SDR"
       /\ When(matched_files[i]) = When(matched_files[j])
       /\ GeoSeqOf(matched_files[i]) # << >>
       /\ BlockAfter(matched_files, j) = << >>

\* C10 as stated: without include_checksums no checksum is listed, matched
\* or returned; with it the checksums that were matched and are files are in
\* the list returned.
C10_ChecksumsReturnedWhenAsked ==
  /\ ~jreq.include_checksums =>
       \A f \in { lets_get[i].Files : i \in 1..Len(lets_get) }
                 \cup { geo_files[i].Files : i \in 1..Len(geo_files) }
                 \cup Range(matched_files) \cup Range(result.paths) : ~f.sha
  /\ (jreq.include_checksums /\ pc = "j_done") =>
       \A f \in Range(matched_files) :
         (f.sha /\ JLocalPath(f) \in local) => JLocalPath(f) \in Range(result.paths)

(* ----------------------- the claims on the pool ------------------------ *)
\* The tasks have just been built and handed to the pool; no worker has
\* taken one yet, so local is what was there when they were built.
TasksBuilt == pc = "j_pool" /\ fetch_calls = << >> /\ queue = download_tasks

\* The pool has been shut down and the list returned.
PoolDone == pc = "j_done"

\* The destination paths of the matched names, in matched order.
MatchedPaths == [ i \in 1..Len(matched_files) |-> JLocalPath(matched_files[i]) ]

Distinct(q) == \A i, j \in 1..Len(q) : q[i] = q[j] => i = j

\* What the workers reported for a task.
StatusOf(t) == { o.status : o \in { x \in outcome : x.task = t } }

\* A path is a file after the pool when it was one before the tasks were
\* built, that is when it got no task, or when its task ended well.
FileAfterPool(p) ==
  \/ p \notin Range(download_tasks)
  \/ "downloaded" \in StatusOf(p)

====
